---- MODULE Spec2Model ----
(***************************************************************************)
(* A state-machine model of aims_io: AimsIO.__post_init__ and the methods  *)
(* it drives (src/aims_io/aims_io.py), with create_csv_from_aims_traj_dump *)
(* (src/aims_io/utils.py).                                                 *)
(*                                                                         *)
(* Text is modelled by what str.split() makes of it: a line is the         *)
(* sequence of its whitespace-separated tokens.  In a control file a token *)
(* is in turn the sequence of its "="-separated parts.  Numbers are exact  *)
(* rationals [num, den]; a quotient by zero is kept as numpy keeps it      *)
(* (den = 0: num = 0 is nan, num = 1 / -1 is +inf / -inf).                 *)
(***************************************************************************)
EXTENDS Integers, Sequences, FiniteSets, TLC

VARIABLES
    path,          \* self.path: the source directory
    output_dir,    \* self.output_dir
    units,         \* self.units
    control_file,  \* contents of path / Control.dat
    fms_file,      \* contents of path / FMS.out
    dumps,         \* raw TrajDump.<run> files of the source directory: run -> table
    poten,         \* PotEn.<run> files of the source directory: run -> table
    csvs,          \* TrajDump.<run>.csv files: <<dir, run>> -> table
    extxyz,        \* TrajDump.<run>-state-<s>.extxyz files: <<dir, run, s>> -> records
    ex_shift,      \* self.ex_shift: <<>> while the attribute is unset, else <<value>>
    atoms_list,    \* self.atoms_list
    masses,        \* self.masses
    pc,            \* the statement __post_init__ has reached
    files,         \* sorted(self.path.glob("TrajDump*"))
    k,             \* position of the loop of gen_extxyz_for_trajdump_files in files
    written,       \* output_file of the last create_csv_from_aims_traj_dump call
    loaded,        \* the file read_trajdump last opened
    positions, momenta, states, time,   \* locals of gen_extxyz_for_trajdump_files
    filename, energy, forces,
    i,             \* loop index of write_extxyz
    err,           \* the exception that ended the batch, "none" while it runs
    log,           \* the stages run so far, in order: <<run, stage>>
    extxyz0        \* the structure files as the batch found them

vars == <<path, output_dir, units, control_file, fms_file, dumps, poten, csvs,
          extxyz, ex_shift, atoms_list, masses, pc, files, k, written, loaded,
          positions, momenta, states, time, filename, energy, forces, i, err, log,
          extxyz0>>

----------------------------------------------------------------------------
(* Bounds of the model *)

MaxTokens == 3
MaxLines == 5
MaxSteps == 3
MaxTime == 2
MaxDumps == 2

----------------------------------------------------------------------------
(* Numbers *)

Abs(n) == IF n < 0 THEN -n ELSE n

Sign(n) == IF n > 0 THEN 1 ELSE IF n < 0 THEN -1 ELSE 0

RECURSIVE Gcd(_, _)
Gcd(a, b) == IF b = 0 THEN a ELSE Gcd(b, a % b)

\* n / d as numpy's true division gives it
Div(n, d) ==
    IF d = 0 THEN [num |-> Sign(n), den |-> 0]
    ELSE LET g == Gcd(Abs(n), Abs(d))
         IN  [num |-> (Sign(d) * n) \div g, den |-> Abs(d) \div g]

Rat(n) == [num |-> n, den |-> 1]

\* a - b for finite a, b
RatSub(a, b) == Div(a.num * b.den - b.num * a.den, a.den * b.den)

\* x * Hartree^ha * Bohr^bohr, the factors of ase.units kept symbolic
Scaled(x, ha, bohr) == [val |-> x, Hartree |-> ha, Bohr |-> bohr]

\* float(s) for the numeric literals the inputs use
NumericLiterals == {"1", "2", "78.5", "1.0", "12.0", "13.0"}

Float(s) ==
    CASE s = "1"    -> Rat(1)
      [] s = "2"    -> Rat(2)
      [] s = "78.5" -> Div(157, 2)
      [] s = "1.0"  -> Rat(1)
      [] s = "12.0" -> Rat(12)
      [] s = "13.0" -> Rat(13)

SeqsUpTo(S, n) == UNION {[1..m -> S] : m \in 0..n}

----------------------------------------------------------------------------
(* get_ex_shift *)

\* "ExShift" in line
HasExShift(line) ==
    \E t \in 1..Len(line) : \E p \in 1..Len(line[t]) : line[t][p] = "ExShift"

\* float(line.split()[0].split("=")[1])
ParseFirstToken(line) ==
    IF Len(line[1]) < 2 THEN [err |-> "IndexError", val |-> <<>>]
    ELSE IF line[1][2] \notin NumericLiterals THEN [err |-> "ValueError", val |-> <<>>]
    ELSE [err |-> "none", val |-> <<Float(line[1][2])>>]

\* the loop of get_ex_shift over the lines of the file, from line n on
RECURSIVE ScanControl(_, _)
ScanControl(lines, n) ==
    IF n > Len(lines) THEN [err |-> "none", val |-> <<>>]
    ELSE IF HasExShift(lines[n]) THEN ParseFirstToken(lines[n])
    ELSE ScanControl(lines, n + 1)

GetExShift ==
    /\ pc = "get_ex_shift"
    /\ LET r == ScanControl(control_file, 1)
       IN  /\ ex_shift' = r.val
           /\ err' = r.err
           /\ pc' = IF r.err = "none" THEN "extract_masses_and_symbols" ELSE "failed"
    /\ UNCHANGED <<path, output_dir, units, extxyz0, control_file, fms_file, dumps, poten,
                   csvs, extxyz, atoms_list, masses, files, k, written, loaded,
                   positions, momenta, states, time, filename, energy, forces, i, log>>

----------------------------------------------------------------------------
(* extract_masses_and_symbols *)

\* "Propagate until:" in line
HasPropagateUntil(line) ==
    \E j \in 1..(Len(line) - 1) : line[j] = "Propagate" /\ line[j + 1] = "until:"

\* line.startswith("Particle #")
StartsWithParticle(line) == Len(line) >= 2 /\ line[1] = "Particle" /\ line[2] = "#"

\* marker in line, for the one-token markers "Element:" and "Mass:"
HasToken(line, marker) == \E j \in 1..Len(line) : line[j] = marker

NoElement == <<>>

\* the locals of extract_masses_and_symbols before the loop
ScanStart ==
    [masses |-> <<>>, atoms_list |-> <<>>, element |-> NoElement,
     reading_particles |-> FALSE, stopped |-> FALSE]

\* the loop body without its break at the sentinel
ScanLineNoBreak(s, line) ==
    IF StartsWithParticle(line) THEN [s EXCEPT !.reading_particles = TRUE]
    ELSE IF ~s.reading_particles THEN s
    ELSE IF HasToken(line, "Element:")
         THEN [s EXCEPT !.element = <<line[2]>>,
                        !.atoms_list = Append(s.atoms_list, line[2])]
    ELSE IF HasToken(line, "Mass:") /\ s.element # NoElement
         THEN IF s.element[1] \in DOMAIN s.masses THEN s
              ELSE [s EXCEPT !.masses = (s.element[1] :> Float(line[2])) @@ s.masses]
    ELSE s

\* the loop body without its test "element not in masses"
ScanLineLastMass(s, line) ==
    IF s.stopped THEN s
    ELSE IF HasPropagateUntil(line) THEN [s EXCEPT !.stopped = TRUE]
    ELSE IF StartsWithParticle(line) THEN [s EXCEPT !.reading_particles = TRUE]
    ELSE IF ~s.reading_particles THEN s
    ELSE IF HasToken(line, "Element:")
         THEN [s EXCEPT !.element = <<line[2]>>,
                        !.atoms_list = Append(s.atoms_list, line[2])]
    ELSE IF HasToken(line, "Mass:") /\ s.element # NoElement
         THEN [s EXCEPT !.masses = (s.element[1] :> Float(line[2])) @@ s.masses]
    ELSE s

\* one pass of the loop body over a line
ScanLine(s, line) ==
    IF s.stopped THEN s
    ELSE IF HasPropagateUntil(line) THEN [s EXCEPT !.stopped = TRUE]
    ELSE IF StartsWithParticle(line) THEN [s EXCEPT !.reading_particles = TRUE]
    ELSE IF ~s.reading_particles THEN s
    ELSE IF HasToken(line, "Element:")
         THEN [s EXCEPT !.element = <<line[2]>>,
                        !.atoms_list = Append(s.atoms_list, line[2])]
    ELSE IF HasToken(line, "Mass:") /\ s.element # NoElement
         THEN IF s.element[1] \in DOMAIN s.masses THEN s
              ELSE [s EXCEPT !.masses = (s.element[1] :> Float(line[2])) @@ s.masses]
    ELSE s

\* the loop over file_content.splitlines(), through line n
RECURSIVE ScanTopology(_, _)
ScanTopology(lines, n) ==
    IF n = 0 THEN ScanStart ELSE ScanLine(ScanTopology(lines, n - 1), lines[n])

ExtractMassesAndSymbols ==
    /\ pc = "extract_masses_and_symbols"
    /\ LET s == ScanTopology(fms_file, Len(fms_file))
       IN  /\ atoms_list' = s.atoms_list
           /\ masses' = s.masses
    /\ pc' = "glob"
    /\ UNCHANGED <<path, output_dir, units, extxyz0, control_file, fms_file, dumps, poten,
                   csvs, extxyz, ex_shift, files, k, written, loaded, positions,
                   momenta, states, time, filename, energy, forces, i, err, log>>

----------------------------------------------------------------------------
(* Files *)

\* TrajDump.<run>, TrajDump.<run>-state-<state>.extxyz and TrajDump.<run>.csv
RawName(run) == [run |-> run, state |-> 0, ext |-> ""]
CsvName(run) == [run |-> run, state |-> 0, ext |-> "csv"]
ExtxyzName(run, state) == [run |-> run, state |-> state, ext |-> "extxyz"]

\* the order of the names as strings, for one-digit runs: by run, and within a run
\* "TrajDump.1" < "TrajDump.1-state-1.extxyz" < "TrajDump.1.csv", as "-" sorts
\* before "."
ExtRank(e) == IF e = "" THEN 0 ELSE IF e = "extxyz" THEN 1 ELSE 2

\* the order of sorted(..., reverse=True)
NameGreater(a, b) ==
    \/ a.run > b.run
    \/ a.run = b.run /\ ExtRank(a.ext) > ExtRank(b.ext)
    \/ a.run = b.run /\ a.ext = b.ext /\ a.state > b.state

NameLess(a, b) ==
    \/ a.run < b.run
    \/ a.run = b.run /\ ExtRank(a.ext) < ExtRank(b.ext)
    \/ a.run = b.run /\ a.ext = b.ext /\ a.state < b.state

\* sorted(...)
RECURSIVE Sorted(_)
Sorted(S) ==
    IF S = {} THEN <<>>
    ELSE LET m == CHOOSE x \in S : \A y \in S \ {x} : NameLess(x, y)
         IN  <<m>> \o Sorted(S \ {m})

\* self.path.glob("TrajDump*")
GlobTrajDump ==
    {RawName(r) : r \in DOMAIN dumps}
    \cup {CsvName(key[2]) : key \in {c \in DOMAIN csvs : c[1] = path}}
    \cup {ExtxyzName(key[2], key[3]) : key \in {x \in DOMAIN extxyz : x[1] = path}}

\* file.name.endswith(("csv", "extxyz"))
IsDerived(name) == name.ext \in {"csv", "extxyz"}

\* create_csv_from_aims_traj_dump: the header without its "#", and every data row
\* with its fields typed; the numbers are those of the dump
CsvTable(table) == [r \in 1..Len(table) |-> table[r]]

\* values.reshape(rows, -1, 3) of one row
Reshape3(flat) ==
    [a \in 1..(Len(flat) \div 3) |-> <<flat[3 * a - 2], flat[3 * a - 1], flat[3 * a]>>]

Log(stage) == log' = Append(log, <<files[k].run, stage>>)

Fail(e) == err' = e /\ pc' = "failed"

----------------------------------------------------------------------------
(* gen_extxyz_for_trajdump_files *)

\* output_dir.mkdir(...) and the evaluation of sorted(self.path.glob("TrajDump*"))
Glob ==
    /\ pc = "glob"
    /\ files' = Sorted(GlobTrajDump)
    /\ k' = 1
    /\ pc' = "loop"
    /\ UNCHANGED <<path, output_dir, units, extxyz0, control_file, fms_file, dumps, poten,
                   csvs, extxyz, ex_shift, atoms_list, masses, written, loaded,
                   positions, momenta, states, time, filename, energy, forces, i,
                   err, log>>

LoopDone ==
    /\ pc = "loop"
    /\ k > Len(files)
    /\ pc' = "done"
    /\ UNCHANGED <<path, output_dir, units, extxyz0, control_file, fms_file, dumps, poten,
                   csvs, extxyz, ex_shift, atoms_list, masses, files, k, written,
                   loaded, positions, momenta, states, time, filename, energy,
                   forces, i, err, log>>

LoopSkip ==
    /\ pc = "loop"
    /\ k <= Len(files)
    /\ IsDerived(files[k])
    /\ k' = k + 1
    /\ UNCHANGED <<path, output_dir, units, extxyz0, control_file, fms_file, dumps, poten,
                   csvs, extxyz, ex_shift, atoms_list, masses, pc, files, written,
                   loaded, positions, momenta, states, time, filename, energy,
                   forces, i, err, log>>

CreateCsv ==
    /\ pc = "loop"
    /\ k <= Len(files)
    /\ ~IsDerived(files[k])
    /\ written' = [dir |-> output_dir, run |-> files[k].run]
    /\ csvs' = (<<output_dir, files[k].run>> :> CsvTable(dumps[files[k].run])) @@ csvs
    /\ Log("create_csv")
    /\ pc' = "read_trajdump"
    /\ UNCHANGED <<path, output_dir, units, extxyz0, control_file, fms_file, dumps, poten,
                   extxyz, ex_shift, atoms_list, masses, files, k, loaded,
                   positions, momenta, states, time, filename, energy, forces, i,
                   err>>

\* file.with_suffix(file.suffix + ".csv"): the sibling of the dump
TrajdumpCsv(file) == [dir |-> path, run |-> file.run]

ReadTrajdump ==
    /\ pc = "read_trajdump"
    /\ loaded' = TrajdumpCsv(files[k])
    /\ Log("read_trajdump")
    /\ LET key == <<loaded'.dir, loaded'.run>>
       IN  IF key \notin DOMAIN csvs
           THEN /\ Fail("FileNotFoundError")
                /\ UNCHANGED <<positions, momenta, states, time, filename>>
           ELSE IF Len(csvs[key]) = 0
           THEN /\ Fail("ValueError")
                /\ UNCHANGED <<positions, momenta, states, time, filename>>
           ELSE LET traj_dump == csvs[key]
                IN  /\ positions' = [t \in 1..Len(traj_dump) |-> Reshape3(traj_dump[t].pos)]
                    /\ momenta' = [t \in 1..Len(traj_dump) |-> Reshape3(traj_dump[t].mom)]
                    /\ states' = [t \in 1..Len(traj_dump) |-> traj_dump[t].StateID]
                    /\ time' = [t \in 1..Len(traj_dump) |-> traj_dump[t].Time]
                    /\ filename' = [dir |-> output_dir, run |-> files[k].run,
                                    state |-> traj_dump[1].StateID[1]]
                    /\ pc' = "read_energy"
                    /\ err' = err
    /\ UNCHANGED <<path, output_dir, units, extxyz0, control_file, fms_file, dumps, poten,
                   csvs, extxyz, ex_shift, atoms_list, masses, files, k, written,
                   energy, forces, i>>

\* "PotEn." + str(file).split(".")[-1]
PotEnRun(file) == file.run

ReadEnergy ==
    /\ pc = "read_energy"
    /\ Log("read_energy")
    /\ LET run == PotEnRun(files[k])
           state == states[1]
       IN  IF run \notin DOMAIN poten
           THEN Fail("FileNotFoundError") /\ energy' = energy
           ELSE IF \E c \in 1..Len(state) : state[c] >= poten[run].cols
           THEN Fail("IndexError") /\ energy' = energy
           ELSE IF ex_shift = <<>>
           THEN Fail("AttributeError") /\ energy' = energy
           ELSE /\ energy' = [t \in 1..Len(poten[run].rows) |->
                                [c \in 1..Len(state) |->
                                   RatSub(Rat(poten[run].rows[t][state[c] + 1]), ex_shift[1])]]
                /\ pc' = "calc_forces"
                /\ err' = err
    /\ UNCHANGED <<path, output_dir, units, extxyz0, control_file, fms_file, dumps, poten,
                   csvs, extxyz, ex_shift, atoms_list, masses, files, k, written,
                   loaded, positions, momenta, states, time, filename, forces, i>>

\* the quotient with the momentum difference taken backwards
ForceAtBackward(mom, tm, t) ==
    [a \in 1..Len(mom[t]) |->
       [c \in 1..3 |-> Div(mom[t][a][c] - mom[t + 1][a][c], tm[t + 1] - tm[t])]]

\* (momenta[timestep + 1] - momenta[timestep]) / (time[timestep + 1] - time[timestep])
ForceAt(mom, tm, t) ==
    [a \in 1..Len(mom[t]) |->
       [c \in 1..3 |-> Div(mom[t + 1][a][c] - mom[t][a][c], tm[t + 1] - tm[t])]]

\* range(len(momenta) - 1)
Timesteps(mom) == 1..(Len(mom) - 1)

CalcForces ==
    /\ pc = "calc_forces"
    /\ Log("calc_forces")
    /\ forces' = [t \in Timesteps(momenta) |-> ForceAt(momenta, time, t)]
    /\ pc' = "write_extxyz"
    /\ UNCHANGED <<path, output_dir, units, extxyz0, control_file, fms_file, dumps, poten,
                   csvs, extxyz, ex_shift, atoms_list, masses, files, k, written,
                   loaded, positions, momenta, states, time, filename, energy, i,
                   err>>

----------------------------------------------------------------------------
(* write_extxyz *)

\* a unit check that lets every unit system through
UnitsUnchecked(u) == TRUE

\* self.units == "metal"
UnitsSupported(u) == u = "metal"

\* lines 109-118: the unit check and the in-place conversions
WriteExtxyz ==
    /\ pc = "write_extxyz"
    /\ Log("write_extxyz")
    /\ IF UnitsSupported(units)
       THEN /\ energy' = [t \in 1..Len(energy) |->
                            [c \in 1..Len(energy[t]) |-> Scaled(energy[t][c], 1, 0)]]
            /\ forces' = [t \in 1..Len(forces) |->
                            [a \in 1..Len(forces[t]) |->
                               [c \in 1..3 |-> Scaled(forces[t][a][c], 1, -1)]]]
            /\ i' = 0
            /\ pc' = "write_loop"
            /\ err' = err
       ELSE /\ Fail("ValueError")
            /\ UNCHANGED <<energy, forces, i>>
    /\ UNCHANGED <<path, output_dir, units, extxyz0, control_file, fms_file, dumps, poten,
                   csvs, extxyz, ex_shift, atoms_list, masses, files, k, written,
                   loaded, positions, momenta, states, time, filename>>

\* the Atoms object with its SinglePointCalculator, as write() serialises it
StructureRecord(n) ==
    [symbols |-> atoms_list,
     positions |-> [a \in 1..Len(positions[n]) |->
                      [c \in 1..3 |-> Scaled(positions[n][a][c], 0, 1)]],
     pbc |-> FALSE,
     energy |-> energy[n],
     forces |-> forces[n]]

ExtxyzKey == <<filename.dir, filename.run, filename.state>>

\* write(filename, curr_atoms, format="extxyz", append=True)
Appended(rec) ==
    IF ExtxyzKey \in DOMAIN extxyz
    THEN [extxyz EXCEPT ![ExtxyzKey] = Append(@, rec)]
    ELSE (ExtxyzKey :> <<rec>>) @@ extxyz

\* one pass of the loop of lines 120-136, the index i counting from 0
WriteRecord ==
    /\ pc = "write_loop"
    /\ i < Len(forces)
    /\ IF Len(atoms_list) # Len(positions[i + 1])
       THEN Fail("ValueError") /\ UNCHANGED <<extxyz, i>>
       ELSE IF i + 1 > Len(energy)
       THEN Fail("IndexError") /\ UNCHANGED <<extxyz, i>>
       ELSE /\ extxyz' = Appended(StructureRecord(i + 1))
            /\ i' = i + 1
            /\ UNCHANGED <<pc, err>>
    /\ UNCHANGED <<path, output_dir, units, extxyz0, control_file, fms_file, dumps, poten,
                   csvs, ex_shift, atoms_list, masses, files, k, written, loaded,
                   positions, momenta, states, time, filename, energy, forces, log>>

\* the loop of write_extxyz ends and the loop over the files goes on
WriteDone ==
    /\ pc = "write_loop"
    /\ i >= Len(forces)
    /\ k' = k + 1
    /\ pc' = "loop"
    /\ UNCHANGED <<path, output_dir, units, extxyz0, control_file, fms_file, dumps, poten,
                   csvs, extxyz, ex_shift, atoms_list, masses, files, written,
                   loaded, positions, momenta, states, time, filename, energy,
                   forces, i, err, log>>

----------------------------------------------------------------------------
(* The inputs *)

EmptyFcn == [x \in {} |-> x]

NoFile == [dir |-> "", run |-> 0]

NoOutput == [dir |-> "", run |-> 0, state |-> 0]

\* Control.dat: KEY=VALUE tokens, a bare word, a value that is no number
TokExShift == <<"ExShift", "78.5">>
TokSomeKey == <<"SomeKey", "1">>
TokOtherKey == <<"OtherKey", "2">>
TokWord == <<"&control">>
TokTitle == <<"Title", "run">>

ControlTokens == {TokExShift, TokSomeKey, TokOtherKey, TokWord, TokTitle}

ControlLines == SeqsUpTo(ControlTokens, MaxTokens) \ {<<>>}

\* a line of up to MaxTokens tokens, alone or after a line without the key, and
\* alone or before a later line that carries the key with another value
ControlFiles ==
    {<<>>} \cup
    {pre \o <<l>> \o post : pre \in {<<>>, <<(<<TokSomeKey>>)>>},
                            l \in ControlLines,
                            post \in {<<>>, <<(<<(<<"ExShift", "2">>)>>)>>}}

BatchControls ==
    { <<(<<TokExShift>>)>>,
      <<(<<TokSomeKey, TokExShift, TokOtherKey>>)>>,
      <<(<<TokSomeKey>>)>> }

\* FMS.out: the lines of the report
LineParticle == <<"Particle", "#", "1">>
LinePropagate == <<"Propagate", "until:", "100">>
LineElement(sym) == <<"Element:", sym>>
LineMass(m) == <<"Mass:", m>>
LineOther == <<"Charge:", "0">>

TopologyLines ==
    {LineParticle, LinePropagate, LineElement("C"), LineElement("H"),
     LineMass("12.0"), LineMass("1.0"), LineOther}

FmsFiles == SeqsUpTo(TopologyLines, MaxLines)

OneAtomReport == <<LineParticle, LineElement("H"), LineMass("1.0"), LinePropagate>>
NoAtomReport == <<LinePropagate, LineParticle, LineElement("H")>>

\* a one-atom trajectory dump of T rows; "repeat" gives rows 1 and 2 one timestamp
MkTable(tag, T, variant) ==
    [t \in 1..T |->
       [Time |-> IF variant = "repeat" THEN (t - 1) \div 2 ELSE t - 1,
        pos |-> <<10 * tag + t, t, 0>>,
        mom |-> <<IF t = 1 THEN 0 ELSE 2, 0, tag * t>>,
        StateID |-> <<1>>]]

\* a potential-energy table: the columns Time and the energy of state 1
MkPotEn(tag, T, ncols) ==
    [cols |-> ncols,
     rows |-> [t \in 1..T |-> IF ncols = 1 THEN <<t - 1>> ELSE <<t - 1, 100 * tag + t>>]]

\* a structure record left by an earlier conversion
OldRecord ==
    [symbols |-> <<"H">>,
     positions |-> <<[c \in 1..3 |-> Scaled(0, 0, 1)]>>,
     pbc |-> FALSE,
     energy |-> <<Scaled(Rat(0), 1, 0)>>,
     forces |-> <<[c \in 1..3 |-> Scaled(Rat(0), 1, -1)]>>]

\* the state before __post_init__ runs statement p, files holding globbed
Start(p, globbed) ==
    /\ path = "src"
    /\ ex_shift = <<>>
    /\ atoms_list = <<>>
    /\ masses = EmptyFcn
    /\ pc = p
    /\ files = globbed
    /\ k = 1
    /\ written = NoFile
    /\ loaded = NoFile
    /\ filename = NoOutput
    /\ energy = <<>>
    /\ forces = <<>>
    /\ positions = <<>>
    /\ states = <<>>
    /\ i = 0
    /\ err = "none"
    /\ log = <<>>

\* a source directory of n dumps, the dump sp of T rows and the others of MaxSteps;
\* an earlier conversion into the source directory ("same": of these dumps, "old":
\* of older ones) has left its tables and a structure file there
Directory(n, sp, T, variant, potvar, prior) ==
    /\ dumps = [r \in 1..n |-> IF r = sp THEN MkTable(r, T, variant)
                                ELSE MkTable(r, MaxSteps, "distinct")]
    /\ poten = [r \in (1..n) \ (IF potvar = "missing" THEN {sp} ELSE {}) |->
                  IF r # sp THEN MkPotEn(r, MaxSteps, 2)
                  ELSE IF potvar = "short" THEN MkPotEn(r, 1, 2)
                  ELSE IF potvar = "narrow" THEN MkPotEn(r, T, 1)
                  ELSE MkPotEn(r, T, 2)]
    /\ csvs = IF prior = "none" THEN EmptyFcn
              ELSE [key \in {<<"src", r>> : r \in 1..n} |->
                      IF prior = "same" THEN CsvTable(dumps[key[2]])
                      ELSE MkTable(0, MaxSteps - 1, "distinct")]
    /\ extxyz = IF prior = "none" \/ n = 0 THEN EmptyFcn
                ELSE [key \in {<<"src", 1, 1>>} |-> <<OldRecord>>]
    /\ extxyz0 = extxyz

Init ==
    /\ Start("get_ex_shift", <<>>)
    /\ momenta = <<>>
    /\ time = <<>>
    /\ output_dir \in {"src", "out"}
    /\ units \in {"metal", "real"}
    /\ control_file \in BatchControls
    /\ fms_file \in {OneAtomReport, NoAtomReport}
    /\ \E n \in 0..MaxDumps :
         \E sp \in 1..n \cup {n} :
           \E T \in 0..MaxSteps :
             \E variant \in {"distinct", "repeat"} :
               \E potvar \in {"full", "short", "narrow", "missing"} :
                 \E prior \in {"none", "same", "old"} :
                   Directory(n, sp, T, variant, potvar, prior)

Next ==
    \/ GetExShift
    \/ ExtractMassesAndSymbols
    \/ Glob
    \/ LoopDone
    \/ LoopSkip
    \/ CreateCsv
    \/ ReadTrajdump
    \/ ReadEnergy
    \/ CalcForces
    \/ WriteExtxyz
    \/ WriteRecord
    \/ WriteDone

Spec == Init /\ [][Next]_vars

\* get_ex_shift alone, over the control files
InitControl ==
    /\ Start("get_ex_shift", <<>>)
    /\ momenta = <<>>
    /\ time = <<>>
    /\ output_dir = "src"
    /\ units = "metal"
    /\ control_file \in ControlFiles
    /\ fms_file = OneAtomReport
    /\ Directory(0, 0, 0, "distinct", "full", "none")

SpecControl == InitControl /\ [][GetExShift]_vars

\* extract_masses_and_symbols alone, over the topology reports
InitTopology ==
    /\ Start("extract_masses_and_symbols", <<>>)
    /\ momenta = <<>>
    /\ time = <<>>
    /\ output_dir = "src"
    /\ units = "metal"
    /\ control_file = <<(<<TokExShift>>)>>
    /\ fms_file \in FmsFiles
    /\ Directory(0, 0, 0, "distinct", "full", "none")

SpecTopology == InitTopology /\ [][ExtractMassesAndSymbols]_vars

\* calc_forces alone, over momentum series of one atom and of two, and their times
MomentumFrames(natoms) ==
    IF natoms = 1
    THEN {<<(<<0, 0, 0>>)>>, <<(<<2, 0, 0>>)>>, <<(<<-1, 3, 0>>)>>}
    ELSE {<<(<<0, 0, 0>>), (<<1, 1, 1>>)>>, <<(<<2, 0, 0>>), (<<1, -2, 4>>)>>}

InitForces ==
    /\ Start("calc_forces", <<RawName(1)>>)
    /\ output_dir = "src"
    /\ units = "metal"
    /\ control_file = <<(<<TokExShift>>)>>
    /\ fms_file = OneAtomReport
    /\ Directory(1, 1, 1, "distinct", "full", "none")
    /\ \E T \in 0..MaxSteps : \E natoms \in 1..2 :
         /\ momenta \in [1..T -> MomentumFrames(natoms)]
         /\ time \in [1..T -> 0..MaxTime]

SpecForces == InitForces /\ [][CalcForces]_vars

----------------------------------------------------------------------------
(* Properties of get_ex_shift *)

Ran(p) == pc # p

\* the first line of the control file that contains "ExShift", 0 when none does
FirstExShiftLine ==
    IF \E n \in 1..Len(control_file) : HasExShift(control_file[n])
    THEN CHOOSE n \in 1..Len(control_file) :
           /\ HasExShift(control_file[n])
           /\ \A m \in 1..(n - 1) : ~HasExShift(control_file[m])
    ELSE 0

\* the tokens ExShift=X of a line
ExShiftTokens(line) ==
    {t \in 1..Len(line) : Len(line[t]) = 2 /\ line[t][1] = "ExShift"
                          /\ line[t][2] \in NumericLiterals}

\* C1: once get_ex_shift has run on a control file whose first line containing
\* "ExShift" carries a token ExShift=X, at whatever position in that line,
\* ex_shift is X; later lines containing ExShift do not change it.
C1_ExShiftIsTheValueOfItsToken ==
    (/\ Ran("get_ex_shift")
     /\ FirstExShiftLine # 0
     /\ \A t \in 1..Len(control_file[FirstExShiftLine]) :
           Len(control_file[FirstExShiftLine][t]) = 2) =>
        \A t \in ExShiftTokens(control_file[FirstExShiftLine]) :
            ex_shift = <<Float(control_file[FirstExShiftLine][t][2])>>

\* C5: when no line of the control file contains "ExShift", the batch has failed
\* once get_ex_shift has run, and no stage of any trajectory dump has run.
C5_MissingExShiftFailsAtControlParsing ==
    (Ran("get_ex_shift") /\ FirstExShiftLine = 0) =>
        (pc = "failed" /\ err # "none" /\ log = <<>>)

----------------------------------------------------------------------------
(* Properties of extract_masses_and_symbols *)

\* the first line of the report that starts a particle block, and the first
\* sentinel line; Len + 1 when there is none
FirstParticle ==
    IF \E n \in 1..Len(fms_file) : StartsWithParticle(fms_file[n])
    THEN CHOOSE n \in 1..Len(fms_file) :
           /\ StartsWithParticle(fms_file[n])
           /\ \A m \in 1..(n - 1) : ~StartsWithParticle(fms_file[m])
    ELSE Len(fms_file) + 1

FirstSentinel ==
    IF \E n \in 1..Len(fms_file) : HasPropagateUntil(fms_file[n])
    THEN CHOOSE n \in 1..Len(fms_file) :
           /\ HasPropagateUntil(fms_file[n])
           /\ \A m \in 1..(n - 1) : ~HasPropagateUntil(fms_file[m])
    ELSE Len(fms_file) + 1

\* the "Element:" lines strictly between the two
ElementLines ==
    {n \in 1..Len(fms_file) : /\ FirstParticle < n
                              /\ n < FirstSentinel
                              /\ HasToken(fms_file[n], "Element:")}

\* the "Mass:" lines strictly between the two
MassLines ==
    {n \in 1..Len(fms_file) : /\ FirstParticle < n
                              /\ n < FirstSentinel
                              /\ HasToken(fms_file[n], "Mass:")}

\* the n-th member of a set of line numbers
Nth(S, n) == CHOOSE j \in S : Cardinality({x \in S : x <= j}) = n

\* the "Mass:" lines read while e was the element read last
MassLinesOf(e) ==
    {n \in MassLines :
        \E j \in ElementLines :
            /\ j < n
            /\ fms_file[j][2] = e
            /\ \A j2 \in ElementLines : j2 < n => j2 <= j}

Symbols == {fms_file[n][2] : n \in {m \in 1..Len(fms_file) : HasToken(fms_file[m], "Element:")}}

\* C4: the atom list is, in file order and with duplicates kept, the symbols of
\* exactly the "Element:" lines strictly after the first "Particle #" line and
\* strictly before the first "Propagate until:" line.
C4_AtomListIsTheElementLinesOfTheBlocks ==
    Ran("extract_masses_and_symbols") =>
        /\ Len(atoms_list) = Cardinality(ElementLines)
        /\ \A n \in 1..Len(atoms_list) :
              atoms_list[n] = fms_file[Nth(ElementLines, n)][2]

C4_Witness ==
    /\ Ran("extract_masses_and_symbols")
    /\ \E n \in 1..Len(fms_file) :
          n > FirstSentinel /\ HasToken(fms_file[n], "Element:")
          /\ \E m \in (FirstSentinel + 1)..(n - 1) : StartsWithParticle(fms_file[m])
    /\ Len(atoms_list) >= 1

\* C8: the mass map holds, for every element, the value of the first "Mass:"
\* line read while that element was the one read last, and has no entry for an
\* element without such a line.
C8_FirstMassOfAnElementWins ==
    Ran("extract_masses_and_symbols") =>
        /\ DOMAIN masses = {e \in Symbols : MassLinesOf(e) # {}}
        /\ \A e \in DOMAIN masses :
              masses[e] = Float(fms_file[Nth(MassLinesOf(e), 1)][2])

C8_Witness ==
    /\ Ran("extract_masses_and_symbols")
    /\ \E e \in DOMAIN masses :
          \E n \in MassLinesOf(e) : Float(fms_file[n][2]) # masses[e]
    /\ \E e \in Symbols : e \notin DOMAIN masses /\ e \in {atoms_list[n] : n \in 1..Len(atoms_list)}

----------------------------------------------------------------------------
(* Properties of calc_forces *)

LastStage == IF log = <<>> THEN "" ELSE log[Len(log)][2]

EqualStamps(tm) == \E t \in 1..(Len(tm) - 1) : tm[t] = tm[t + 1]

ConstantSeries(mom) == \A t \in 1..Len(mom) : mom[t] = mom[1]

\* C3: for a momentum series of length T >= 1 whose consecutive timestamps
\* differ, calc_forces returns T - 1 entries and entry t times
\* (time[t+1] - time[t]) is momentum[t+1] - momentum[t], elementwise; a constant
\* series gives zero forces, and the series of the scenario gives [2,0,0],[0,0,0].
C3_ForcesAreMomentumDifferenceQuotients ==
    (LastStage = "calc_forces" /\ Len(momenta) >= 1 /\ ~EqualStamps(time)) =>
        /\ DOMAIN forces = 1..(Len(momenta) - 1)
        /\ \A t \in DOMAIN forces :
              /\ DOMAIN forces[t] = DOMAIN momenta[t]
              /\ \A a \in DOMAIN forces[t] : \A c \in 1..3 :
                    /\ forces[t][a][c].den > 0
                    /\ forces[t][a][c].num * (time[t + 1] - time[t])
                         = (momenta[t + 1][a][c] - momenta[t][a][c]) * forces[t][a][c].den
                    /\ ConstantSeries(momenta) => forces[t][a][c].num = 0
        /\ (/\ momenta = <<(<<(<<0, 0, 0>>)>>), (<<(<<2, 0, 0>>)>>), (<<(<<2, 0, 0>>)>>)>>
            /\ time = <<0, 1, 2>>) =>
              forces = << <<(<<Rat(2), Rat(0), Rat(0)>>)>>,
                          <<(<<Rat(0), Rat(0), Rat(0)>>)>> >>

C3_Witness ==
    /\ LastStage = "calc_forces"
    /\ Len(momenta) = 3
    /\ ~EqualStamps(time)
    /\ time[2] - time[1] = 2
    /\ forces[1][1][2] = Div(3, 2)
    /\ forces[2][1][1] = Rat(-3)

\* C6: when two consecutive timestamps are equal, calc_forces fails: it returns
\* no force series, and the batch stops there with no record written.
C6_EqualTimestampsFail ==
    (LastStage \in {"calc_forces", "write_extxyz"} /\ EqualStamps(time)) =>
        (pc = "failed" /\ err # "none" /\ LastStage = "calc_forces")

----------------------------------------------------------------------------
(* Properties of the batch *)

\* the runs whose pipeline has completed: the loop has passed their dump
Completed == {files[j].run : j \in {n \in 1..(k - 1) : ~IsDerived(files[n])}}

\* the records one structure file has gained since the batch started
NewRecords(key) ==
    IF key \notin DOMAIN extxyz THEN <<>>
    ELSE IF key \notin DOMAIN extxyz0 THEN extxyz[key]
    ELSE SubSeq(extxyz[key], Len(extxyz0[key]) + 1, Len(extxyz[key]))

\* record n of a dump, from the dump and its potential-energy table themselves
DumpRecord(run, n) ==
    LET table == dumps[run]
        mom == [t \in 1..Len(table) |-> Reshape3(table[t].mom)]
        tm == [t \in 1..Len(table) |-> table[t].Time]
        quot == ForceAt(mom, tm, n)
    IN  [symbols |-> atoms_list,
         positions |-> [a \in 1..(Len(table[n].pos) \div 3) |->
                          [c \in 1..3 |-> Scaled(table[n].pos[3 * (a - 1) + c], 0, 1)]],
         pbc |-> FALSE,
         energy |-> [s \in 1..Len(table[1].StateID) |->
                       Scaled(RatSub(Rat(poten[run].rows[n][table[1].StateID[s] + 1]),
                                     ex_shift[1]), 1, 0)],
         forces |-> [a \in 1..Len(quot) |->
                       [c \in 1..3 |-> Scaled(quot[a][c], 1, -1)]]]

\* C2: for every dump of T timesteps whose pipeline has completed, the dump's
\* structure file has gained exactly T - 1 records, and the n-th of them carries
\* frame n of the dump's positions, energies and forces.
C2_OneRecordPerForceFrame ==
    \A run \in Completed :
        LET new == NewRecords(<<output_dir, run, dumps[run][1].StateID[1]>>)
        IN  /\ Len(dumps[run]) >= 1
            /\ Len(new) = Len(dumps[run]) - 1
            /\ \A n \in 1..Len(new) : new[n] = DumpRecord(run, n)

\* C7: with a unit system other than "metal" no structure file gains a record,
\* and a call of write_extxyz ends the batch with the unsupported-unit error.
C7_UnsupportedUnitsWriteNothing ==
    units # "metal" =>
        /\ extxyz = extxyz0
        /\ pc # "write_loop"
        /\ LastStage = "write_extxyz" => (pc = "failed" /\ err = "ValueError")

C7_Witness ==
    /\ units # "metal"
    /\ LastStage = "write_extxyz"
    /\ Len(forces) >= 2
    /\ ExtxyzKey \in DOMAIN extxyz0

\* C9: the table read_trajdump loads for a dump is the file
\* create_csv_from_aims_traj_dump wrote for it in the same iteration.
C9_ReadsTheTableItWrote ==
    (log # <<>> /\ LastStage # "create_csv") => loaded = written

\* the five stages of one dump
StagesOf(run) ==
    <<(<<run, "create_csv">>), (<<run, "read_trajdump">>), (<<run, "read_energy">>),
      (<<run, "calc_forces">>), (<<run, "write_extxyz">>)>>

\* the stages of the dumps run .. n, by ascending name
RECURSIVE StagesFrom(_, _)
StagesFrom(run, n) == IF run > n THEN <<>> ELSE StagesOf(run) \o StagesFrom(run + 1, n)

IsPrefix(s, t) == Len(s) <= Len(t) /\ \A n \in 1..Len(s) : s[n] = t[n]

StagesInOrder == IsPrefix(log, StagesFrom(1, Cardinality(DOMAIN dumps)))

\* C10: the dumps are processed one at a time by ascending name, each through
\* normalize, read trajectory, read energy, estimate forces, write records; once
\* a stage has failed no further stage runs and no output file changes.
C10_SortedStagesAndFailFast ==
    /\ []StagesInOrder
    /\ [][err # "none" => UNCHANGED <<log, csvs, extxyz>>]_vars
    /\ [][(err = "none" /\ err' # "none") => pc' = "failed"]_vars

\* the second dump fails in write_extxyz after a record of its own, the first
\* dump's files being complete
C10_Witness ==
    /\ err = "IndexError"
    /\ k = 2
    /\ Len(log) = 10
    /\ i = 1
    /\ <<output_dir, 1, 1>> \in DOMAIN extxyz

====
